---- MODULE Spec2Model ----
(***************************************************************************)
(* A model of src/src/app.py: the Thai zipcode placefinder.                *)
(*                                                                         *)
(* Text is modelled as Python models it: a str is a sequence of Unicode    *)
(* code points (Seq(Int)), compared code point by code point.  The value   *)
(* None is the one-element sequence <<-1>>, which is no str.  A dict is a  *)
(* sequence of entries in insertion order (Python dicts iterate in         *)
(* insertion order), a list is a sequence, a set is a set.                 *)
(***************************************************************************)
EXTENDS Integers, Sequences, FiniteSets, TLC

\* Rows in an enumerated dataset, and rows in the generated large dataset.
MaxRows == 2
BulkRows == 101

None == <<-1>>

\* Python truthiness of an optional str: None and "" are falsy.
Truthy(x) == x # None /\ x # <<>>

-----------------------------------------------------------------------------
(* str primitives *)

\* str.isspace() per character (the ASCII members of Unicode White_Space).
IsSpace(c) == c \in {9, 10, 11, 12, 13, 28, 29, 30, 31, 32}

\* ASCII decimal digits '0'..'9'.
IsAsciiDigit(c) == c \in 48..57

\* A character str.isdigit() accepts: ASCII digits and the other Unicode
\* digit characters; the model's alphabet holds the ARABIC-INDIC DIGITs
\* U+0660..U+0669 and SUPERSCRIPT TWO U+00B2 as examples of these.
UnicodeIsDigit(c) == IsAsciiDigit(c) \/ c \in 1632..1641 \/ c = 178

\* str.isdigit(): non-empty and every character is a digit character.
isdigit(s) == Len(s) > 0 /\ \A i \in 1..Len(s) : UnicodeIsDigit(s[i])

\* str.zfill(width): pad with '0' on the left, after a leading sign if any.
RECURSIVE Zeros(_)
Zeros(n) == IF n <= 0 THEN <<>> ELSE <<48>> \o Zeros(n - 1)

zfill(s, width) ==
    IF Len(s) >= width THEN s
    ELSE IF Len(s) > 0 /\ s[1] \in {43, 45}
         THEN <<s[1]>> \o Zeros(width - Len(s)) \o Tail(s)
         ELSE Zeros(width - Len(s)) \o s

\* str.lower() per character (ASCII letters; the alphabet has no other cased
\* letters).
LowerChar(c) == IF c \in 65..90 THEN c + 32 ELSE c

lower(s) == [i \in 1..Len(s) |-> LowerChar(s[i])]

\* str.strip()
RECURSIVE lstrip(_)
lstrip(s) == IF s # <<>> /\ IsSpace(Head(s)) THEN lstrip(Tail(s)) ELSE s

RECURSIVE rstrip(_)
rstrip(s) ==
    IF s # <<>> /\ IsSpace(s[Len(s)]) THEN rstrip(SubSeq(s, 1, Len(s) - 1)) ELSE s

strip(s) == rstrip(lstrip(s))

\* re.sub(r"\s+", " ", s): every maximal run of whitespace becomes one ' '.
RECURSIVE CollapseSpace(_)
CollapseSpace(s) ==
    IF s = <<>> THEN <<>>
    ELSE IF IsSpace(Head(s))
         THEN <<32>> \o CollapseSpace(lstrip(s))
         ELSE <<Head(s)>> \o CollapseSpace(Tail(s))

\* str.startswith(prefix)
startswith(s, prefix) ==
    Len(prefix) <= Len(s) /\ SubSeq(s, 1, Len(prefix)) = prefix

\* q in c  (also c.find(q) != -1)
Contains(c, q) ==
    \E i \in 1..(Len(c) - Len(q) + 1) : SubSeq(c, i, i + Len(q) - 1) = q

\* Python's list slice seq[lo:hi] for 0 <= lo <= hi (0-based, hi excluded).
Slice(seq, lo, hi) ==
    LET h == IF hi > Len(seq) THEN Len(seq) ELSE hi
    IN  IF lo >= h THEN <<>> ELSE SubSeq(seq, lo + 1, h)

\* Python's str ordering: lexicographic by code point.
RECURSIVE StrLess(_, _)
StrLess(a, b) ==
    IF b = <<>> THEN FALSE
    ELSE IF a = <<>> THEN TRUE
    ELSE IF Head(a) # Head(b) THEN Head(a) < Head(b)
    ELSE StrLess(Tail(a), Tail(b))

\* Python's tuple ordering on (province, amphoe, district): the first
\* differing component decides; equal components (None == None too) are
\* skipped without being ordered.
TripleLess(x, y) ==
    IF x[1] # y[1] THEN StrLess(x[1], y[1])
    ELSE IF x[2] # y[2] THEN StrLess(x[2], y[2])
    ELSE StrLess(x[3], y[3])

\* sorted(set of triples): a row's set holds a handful of triples.
RECURSIVE SortTriples(_)
SortTriples(S) ==
    IF S = {} THEN <<>>
    ELSE LET m == CHOOSE x \in S : \A y \in S : ~TripleLess(y, x)
         IN  <<m>> \o SortTriples(S \ {m})

\* The permutation sorted() applies to a list of str keys: position p of the
\* result holds the element that has p - 1 elements before it, where an
\* element comes before another when it is smaller, or equal and earlier
\* (sorted() is stable).  Written without recursion over the list, whose
\* length is not bounded by a few elements.
SortPerm(keys) ==
    LET n == Len(keys)
        Before(i, j) == StrLess(keys[i], keys[j]) \/ (keys[i] = keys[j] /\ i < j)
        rank == {<<1 + Cardinality({i \in 1..n : Before(i, j)}), j>> : j \in 1..n}
    IN  [p \in 1..n |-> CHOOSE j \in 1..n : <<p, j>> \in rank]

\* sorted(list of str)
SortStrSeq(seq) == LET perm == SortPerm(seq) IN [p \in 1..Len(seq) |-> seq[perm[p]]]

\* The distinct members of a list in order of first appearance.
Distinct(seq) ==
    LET first == SelectSeq([i \in 1..Len(seq) |-> i],
                           LAMBDA i : \A j \in 1..(i - 1) : seq[j] # seq[i])
    IN  [k \in 1..Len(first) |-> seq[first[k]]]

\* sorted({v for v in seq})
SortedDistinct(seq) == SortStrSeq(Distinct(seq))

\* The concatenation of the lists ss[lo], ..., ss[hi], by halves.
RECURSIVE ConcatRange(_, _, _)
ConcatRange(ss, lo, hi) ==
    IF lo > hi THEN <<>>
    ELSE IF lo = hi THEN ss[lo]
    ELSE LET mid == (lo + hi) \div 2
         IN  ConcatRange(ss, lo, mid) \o ConcatRange(ss, mid + 1, hi)

ConcatAll(ss) == ConcatRange(ss, 1, Len(ss))

-----------------------------------------------------------------------------
(* dict primitives: a dict is a sequence of [key, val] entries *)

HasKey(d, k) == \E i \in 1..Len(d) : d[i].key = k

\* d.get(k, default)
DictGet(d, k, default) ==
    IF HasKey(d, k) THEN d[CHOOSE i \in 1..Len(d) : d[i].key = k].val ELSE default

Keys(d) == [i \in 1..Len(d) |-> d[i].key]

\* The dict that
\*     d = {}
\*     for (key, val) in pairs: d.setdefault(key, []).append(val)
\* builds: the keys in order of first appearance, each with the list of its
\* values in the order of the pairs.
SetDefaultAppendAll(pairs) ==
    LET keys == Distinct([i \in 1..Len(pairs) |-> pairs[i].key])
        ValuesOf(k) ==
            LET mine == SelectSeq(pairs, LAMBDA p : p.key = k)
            IN  [j \in 1..Len(mine) |-> mine[j].val]
    IN  [i \in 1..Len(keys) |-> [key |-> keys[i], val |-> ValuesOf(keys[i])]]

sorted_items(d) == LET perm == SortPerm(Keys(d)) IN [p \in 1..Len(d) |-> d[perm[p]]]

-----------------------------------------------------------------------------
(* The dataset: what json.loads returns at line 17.                        *)
(* A row is [zipCode, provinceList, districtList, subDistrictList]; the    *)
(* zipCode is given as str(record.get("zipCode", "")) already is: a str.   *)

Prov(id, name) == [provinceId |-> id, provinceName |-> name]
Dist(id, name) == [districtId |-> id, districtName |-> name]
SubD(name, id) == [subDistrictName |-> name, districtId |-> id]

Pa == <<80, 97>>                    \* "Pa"
Pb == <<80, 98>>                    \* "Pb"
Bang == <<66, 97, 110, 103>>        \* "Bang"
Na == <<78, 97>>                    \* "Na"
KoSa == <<75, 111, 32, 32, 83, 97>> \* "Ko  Sa" (two spaces)
Si == <<83, 105>>                   \* "Si"
Ao == <<65, 111>>                   \* "Ao"
Xx == <<88, 120>>                   \* "Xx"

\* "12": pads to "00012".  Two provinces (the smallest id wins), a repeated
\* subdistrict, an empty subdistrict name and an unknown district id.
Row1 ==
    [zipCode |-> <<49, 50>>,
     provinceList |-> <<Prov(2, Pb), Prov(1, Pa)>>,
     districtList |-> <<Dist(1, Bang), Dist(2, Na)>>,
     subDistrictList |->
        <<SubD(Si, 2), SubD(Ao, 1), SubD(Si, 2), SubD(<<>>, 1), SubD(Xx, 9)>>]

\* "00012" again, in a second row.
Row2 ==
    [zipCode |-> <<48, 48, 48, 49, 50>>,
     provinceList |-> <<Prov(1, Pa)>>,
     districtList |-> <<Dist(1, Bang)>>,
     subDistrictList |-> <<SubD(Si, 1), SubD(Ao, 1)>>]

\* "10110" with no province listed.
Row3 ==
    [zipCode |-> <<49, 48, 49, 49, 48>>,
     provinceList |-> <<>>,
     districtList |-> <<Dist(7, KoSa)>>,
     subDistrictList |-> <<SubD(Si, 7)>>]

\* Five ARABIC-INDIC DIGITs, U+0661..U+0665.
Row4 ==
    [zipCode |-> <<1633, 1634, 1635, 1636, 1637>>,
     provinceList |-> <<Prov(1, Pa)>>,
     districtList |-> <<Dist(1, Bang)>>,
     subDistrictList |-> <<SubD(Si, 1)>>]

\* "1a2b3"
Row5 ==
    [zipCode |-> <<49, 97, 50, 98, 51>>,
     provinceList |-> <<Prov(1, Pa)>>,
     districtList |-> <<Dist(1, Bang)>>,
     subDistrictList |-> <<SubD(Si, 1)>>]

\* "123456"
Row6 ==
    [zipCode |-> <<49, 50, 51, 52, 53, 54>>,
     provinceList |-> <<Prov(1, Pa)>>,
     districtList |-> <<Dist(1, Bang)>>,
     subDistrictList |-> <<SubD(Ao, 1)>>]

RowPool == {Row1, Row2, Row3, Row4, Row5, Row6}

\* str(n) for a natural number n.
RECURSIVE DecStr(_)
DecStr(n) == IF n < 10 THEN <<48 + n>> ELSE Append(DecStr(n \div 10), 48 + (n % 10))

\* A dataset of BulkRows rows with the numeric zip codes 1..BulkRows, one
\* place each.
BulkRow(i) ==
    [zipCode |-> DecStr(i),
     provinceList |-> <<Prov(1, Pa)>>,
     districtList |-> <<Dist(1, Bang)>>,
     subDistrictList |-> <<SubD(Si, 1)>>]

BulkDataset == [i \in 1..BulkRows |-> BulkRow(i)]

SeqsUpTo(S, n) == UNION {[1..k -> S] : k \in 0..n}

Datasets == SeqsUpTo(RowPool, MaxRows) \cup {BulkDataset}

-----------------------------------------------------------------------------
(* fetch_and_build_mapping, lines 13-52 *)

\* {d.get(idField): d.get(nameField) for d in list}.get(id): the last entry
\* with that id decides; None when there is none.
RECURSIVE DistrictName(_, _)
DistrictName(districtList, id) ==
    IF districtList = <<>> THEN None
    ELSE LET last == districtList[Len(districtList)]
         IN  IF last.districtId = id THEN last.districtName
             ELSE DistrictName(SubSeq(districtList, 1, Len(districtList) - 1), id)

RECURSIVE ProvinceNameOf(_, _)
ProvinceNameOf(provinceList, id) ==
    IF provinceList = <<>> THEN None
    ELSE LET last == provinceList[Len(provinceList)]
         IN  IF last.provinceId = id THEN last.provinceName
             ELSE ProvinceNameOf(SubSeq(provinceList, 1, Len(provinceList) - 1), id)

\* Lines 29-34: the name at the smallest province id, None without provinces.
ProvinceName(record) ==
    LET ids == {record.provinceList[i].provinceId : i \in 1..Len(record.provinceList)}
    IN  IF ids = {} THEN None
        ELSE ProvinceNameOf(record.provinceList,
                            CHOOSE k \in ids : \A j \in ids : k <= j)

\* Lines 36-43: the set of triples of one row.
UniqueLocations(record) ==
    LET sds == record.subDistrictList
    IN  {<<ProvinceName(record),
           DistrictName(record.districtList, sds[i].districtId),
           sds[i].subDistrictName>> :
            i \in {j \in 1..Len(sds) :
                     /\ Truthy(sds[j].subDistrictName)
                     /\ Truthy(DistrictName(record.districtList, sds[j].districtId))}}

Place(t) == [province |-> t[1], amphoe |-> t[2], district |-> t[3]]

\* Lines 21-23: whether the row is kept.
CodeOf(record) == zfill(record.zipCode, 5)

CodeAccepted(code) == ~(~isdigit(code) \/ Len(code) # 5)

\* Lines 20-50 for one row: the (code, place) appends it makes, in order.
RowAppends(record) ==
    IF ~CodeAccepted(CodeOf(record)) THEN <<>>
    ELSE LET triples == SortTriples(UniqueLocations(record))
         IN  [j \in 1..Len(triples) |->
                [key |-> CodeOf(record), val |-> Place(triples[j])]]

\* Lines 19-52: the loop over the rows appends, row after row, each row's
\* places to the list of the row's code.
BuildMapping(rows) ==
    SetDefaultAppendAll(ConcatAll([i \in 1..Len(rows) |-> RowAppends(rows[i])]))

-----------------------------------------------------------------------------
(* normalize_text, lines 66-70 *)

normalize_text(text) ==
    IF text = None THEN <<>> ELSE CollapseSpace(lower(strip(text)))

-----------------------------------------------------------------------------
(* is_match, lines 73-82, with difflib.SequenceMatcher(None, c, q).ratio() *)

\* SequenceMatcher.find_longest_match(alo, ahi, blo, bhi) with no junk
\* (isjunk is None, and the automatic junk heuristic only acts on a second
\* sequence of 200 or more characters): <<i, j, k>>, 0-based, with
\* a[i:i+k] == b[j:j+k], k largest, then i smallest, then j smallest;
\* <<alo, blo, 0>> when nothing matches.
LongestMatch(a, b, alo, ahi, blo, bhi) ==
    LET MinOf(x, y) == IF x < y THEN x ELSE y
        blocks ==
            {m \in UNION {{<<i, j, k>> : k \in 1..MinOf(ahi - i, bhi - j)} :
                            i \in alo..(ahi - 1), j \in blo..(bhi - 1)} :
                \A t \in 1..m[3] : a[m[1] + t] = b[m[2] + t]}
        Better(m, o) ==
            \/ m[3] > o[3]
            \/ m[3] = o[3] /\ m[1] < o[1]
            \/ m[3] = o[3] /\ m[1] = o[1] /\ m[2] < o[2]
    IN  IF blocks = {} THEN <<alo, blo, 0>>
        ELSE CHOOSE m \in blocks : \A o \in blocks \ {m} : Better(m, o)

\* The total size of get_matching_blocks(): the longest block, then the
\* blocks of what lies left of it and of what lies right of it.
RECURSIVE MatchedChars(_, _, _, _, _, _)
MatchedChars(a, b, alo, ahi, blo, bhi) ==
    LET m == LongestMatch(a, b, alo, ahi, blo, bhi)
    IN  IF m[3] = 0 THEN 0
        ELSE m[3]
             + (IF alo < m[1] /\ blo < m[2]
                THEN MatchedChars(a, b, alo, m[1], blo, m[2]) ELSE 0)
             + (IF m[1] + m[3] < ahi /\ m[2] + m[3] < bhi
                THEN MatchedChars(a, b, m[1] + m[3], ahi, m[2] + m[3], bhi) ELSE 0)

\* ratio() >= 0.75, where ratio() is 2.0 * matches / (len(a) + len(b)), and
\* 1.0 for two empty sequences: 2m/t >= 3/4 exactly when 8m >= 3t.
RatioAtLeastThreshold(a, b) ==
    LET matches == MatchedChars(a, b, 0, Len(a), 0, Len(b))
        length == Len(a) + Len(b)
    IN  IF length = 0 THEN TRUE ELSE 8 * matches >= 3 * length

is_match(candidate, query, fuzzy) ==
    LET c == normalize_text(candidate)
        q == normalize_text(query)
    IN  IF q = <<>> THEN TRUE
        ELSE IF Contains(c, q) THEN TRUE
        ELSE IF fuzzy THEN RatioAtLeastThreshold(c, q)
        ELSE FALSE

-----------------------------------------------------------------------------
(* The flattened index, lines 85-102 *)

\* Lines 88-97 for the places of one code.
FlattenLocs(code, locs) ==
    [j \in 1..Len(locs) |->
        [code |-> code,
         province |-> locs[j].province,
         amphoe |-> locs[j].amphoe,
         district |-> locs[j].district,
         province_n |-> normalize_text(locs[j].province),
         amphoe_n |-> normalize_text(locs[j].amphoe),
         district_n |-> normalize_text(locs[j].district)]]

\* Lines 86-97: code after code in the dict's order, place after place.
Flatten(mapping) ==
    ConcatAll([i \in 1..Len(mapping) |-> FlattenLocs(mapping[i].key, mapping[i].val)])

\* sorted({r[field] for r in RECORDS if r.get(field)})
UniqueValues(records, field) ==
    LET kept == SelectSeq(records, LAMBDA r : Truthy(r[field]))
    IN  SortedDistinct([i \in 1..Len(kept) |-> kept[i][field]])

-----------------------------------------------------------------------------
(* State *)

VARIABLES
    pc,                    \* where the process is: start, built, serving,
                           \* responding, aborted
    fetches,               \* urlopen calls made so far
    fetch_failed,          \* whether the call of line 63 has raised
    ZIPCODE_TO_LOCATIONS,  \* line 63
    RECORDS,               \* line 86
    UNIQUE_PROVINCES,      \* line 99
    UNIQUE_AMPHOES,        \* line 100
    UNIQUE_DISTRICTS,      \* line 101
    UNIQUE_ZIPCODES,       \* line 102
    resp                   \* the response of the request being answered

index == <<RECORDS, UNIQUE_PROVINCES, UNIQUE_AMPHOES, UNIQUE_DISTRICTS, UNIQUE_ZIPCODES>>
shared == <<ZIPCODE_TO_LOCATIONS, index>>
vars == <<pc, fetches, fetch_failed, shared, resp>>

NoResponse == [handler |-> "none"]

Init ==
    /\ pc = "start"
    /\ fetches = 0
    /\ fetch_failed = FALSE
    /\ ZIPCODE_TO_LOCATIONS = <<>>
    /\ RECORDS = <<>>
    /\ UNIQUE_PROVINCES = <<>>
    /\ UNIQUE_AMPHOES = <<>>
    /\ UNIQUE_DISTRICTS = <<>>
    /\ UNIQUE_ZIPCODES = <<>>
    /\ resp = NoResponse

\* Line 63, the fetch and the parse succeeding with some dataset.
fetch_and_build_mapping ==
    /\ pc = "start"
    /\ \E rows \in Datasets : ZIPCODE_TO_LOCATIONS' = BuildMapping(rows)
    /\ fetches' = fetches + 1
    /\ pc' = "built"
    /\ UNCHANGED <<fetch_failed, index, resp>>

\* A variant of fetch_raises that catches the exception and goes on with an
\* empty Mapping.
fetch_raises_swallowed ==
    /\ pc = "start"
    /\ fetches' = fetches + 1
    /\ fetch_failed' = TRUE
    /\ pc' = "built"
    /\ UNCHANGED <<shared, resp>>

\* Line 63, urlopen, decode or json.loads raising: the exception leaves the
\* module's top level and the import of the application fails.
fetch_raises ==
    /\ pc = "start"
    /\ fetches' = fetches + 1
    /\ fetch_failed' = TRUE
    /\ pc' = "aborted"
    /\ UNCHANGED <<shared, resp>>

\* Lines 85-102, after which the module is imported and requests are served.
BuildIndex ==
    /\ pc = "built"
    /\ RECORDS' = Flatten(ZIPCODE_TO_LOCATIONS)
    /\ UNIQUE_PROVINCES' = UniqueValues(Flatten(ZIPCODE_TO_LOCATIONS), "province")
    /\ UNIQUE_AMPHOES' = UniqueValues(Flatten(ZIPCODE_TO_LOCATIONS), "amphoe")
    /\ UNIQUE_DISTRICTS' = UniqueValues(Flatten(ZIPCODE_TO_LOCATIONS), "district")
    /\ UNIQUE_ZIPCODES' = SortStrSeq(Keys(ZIPCODE_TO_LOCATIONS))
    /\ pc' = "serving"
    /\ UNCHANGED <<fetches, fetch_failed, ZIPCODE_TO_LOCATIONS, resp>>

-----------------------------------------------------------------------------
(* Request parsing *)

\* request.args.get(name, default) and request.values.get(name, default):
\* a parameter the request does not carry is None in the model's request.
Arg(args, name, default) == IF args[name] = None THEN default ELSE args[name]

\* The spellings of fuzzy that count as true: "1", "true", "yes", "y".
FuzzyTrue == {<<49>>, <<116, 114, 117, 101>>, <<121, 101, 115>>, <<121>>}

\* The default "false" of the fuzzy parameter.
FalseStr == <<102, 97, 108, 115, 101>>

ParseFuzzy(args) == lower(Arg(args, "fuzzy", FalseStr)) \in FuzzyTrue

\* A decimal digit for int(): ASCII or another Unicode Nd character (of
\* which the alphabet holds the ARABIC-INDIC DIGITs), and its value.
IsDecimal(c) == IsAsciiDigit(c) \/ c \in 1632..1641

DigitValue(c) == IF IsAsciiDigit(c) THEN c - 48 ELSE c - 1632

RECURSIVE DigitsValue(_)
DigitsValue(ds) ==
    IF ds = <<>> THEN 0
    ELSE 10 * DigitsValue(SubSeq(ds, 1, Len(ds) - 1)) + DigitValue(ds[Len(ds)])

\* int(s) for a str: surrounding whitespace is dropped, then an optional
\* sign, then digits, single underscores allowed between digits.  ok is
\* FALSE where int() raises ValueError.
ParseInt(s) ==
    LET t == strip(s)
        signed == t # <<>> /\ t[1] \in {43, 45}
        body == IF signed THEN Tail(t) ELSE t
        digits == SelectSeq(body, LAMBDA c : c # 95)
        ok == /\ body # <<>>
              /\ \A i \in 1..Len(body) : IsDecimal(body[i]) \/ body[i] = 95
              /\ body[1] # 95 /\ body[Len(body)] # 95
              /\ \A i \in 1..(Len(body) - 1) : ~(body[i] = 95 /\ body[i + 1] = 95)
    IN  [ok |-> ok,
         val |-> IF ~ok THEN 0
                 ELSE IF signed /\ t[1] = 45 THEN 0 - DigitsValue(digits)
                 ELSE DigitsValue(digits)]

Max(x, y) == IF x >= y THEN x ELSE y
Min(x, y) == IF x <= y THEN x ELSE y

\* A variant of SearchLimit without the upper clamp.
SearchLimit_unclamped(args) ==
    IF args.limit = None THEN 50
    ELSE IF ParseInt(args.limit).ok THEN Max(1, ParseInt(args.limit).val)
    ELSE 50

\* Lines 269-272: max(1, min(200, int(request.args.get("limit", 50)))),
\* and 50 on ValueError.
SearchLimit(args) ==
    IF args.limit = None THEN Max(1, Min(200, 50))
    ELSE IF ParseInt(args.limit).ok THEN Max(1, Min(200, ParseInt(args.limit).val))
    ELSE 50

\* Lines 273-276: max(0, int(request.args.get("offset", 0))), and 0 on
\* ValueError.
SearchOffset(args) ==
    IF args.offset = None THEN Max(0, 0)
    ELSE IF ParseInt(args.offset).ok THEN Max(0, ParseInt(args.offset).val)
    ELSE 0

\* Lines 345-348: max(1, min(20, int(request.args.get("limit", 10)))), and
\* 10 on ValueError.
SuggestLimit(args) ==
    IF args.limit = None THEN Max(1, Min(20, 10))
    ELSE IF ParseInt(args.limit).ok THEN Max(1, Min(20, ParseInt(args.limit).val))
    ELSE 10

-----------------------------------------------------------------------------
(* The requests the model sends *)

ZipcodePaths ==
    {<<48, 48, 48, 49, 50>>,            \* "00012"
     <<32, 48, 48, 48, 49, 50, 32>>,    \* " 00012 "
     <<49, 48, 49, 49, 48>>,            \* "10110"
     <<48, 48, 49, 48, 49>>,            \* "00101"
     <<57, 57, 57, 57, 57>>,            \* "99999"
     <<97, 98, 99, 100, 101>>,          \* "abcde"
     <<49, 50, 51, 52>>,                \* "1234"
     <<49, 50, 51, 52, 53, 54>>,        \* "123456"
     <<1633, 1634, 1635, 1636, 1637>>,  \* five ARABIC-INDIC DIGITs
     <<48, 48, 48, 49, 178>>}           \* "0001" and SUPERSCRIPT TWO

CodeArgs == {None, <<48>>, <<32, 49, 32>>}                     \* -, "0", " 1 "
ProvinceArgs == {None, <<112, 97>>}                            \* -, "pa"
AmphoeArgs == {None, <<98, 97, 103>>,                          \* -, "bag",
               <<32, 75, 79, 32, 9, 115, 97>>}                 \* " KO \tsa"
DistrictArgs == {None, <<115>>}                                \* -, "s"
QArgs == {None, <<49>>, <<32, 49>>, <<32>>, <<78, 97>>}        \* -, "1", " 1", " ", "Na"
FuzzyArgs == {None, <<84, 114, 117, 101>>}                     \* -, "True"
UiFuzzyArgs == FuzzyArgs \cup {<<>>}                           \* and ""
LimitArgs == {None, <<49>>, <<48>>, <<57, 57, 57, 57>>,        \* -, "1", "0", "9999",
              <<97, 98, 99>>, <<32, 50, 32>>}                  \* "abc", " 2 "
OffsetArgs == {None, <<49>>, <<45, 49>>, <<120>>}              \* -, "1", "-1", "x"

\* Every combination of filters with the default paging, and every
\* combination of paging parameters with and without a code filter.
SearchRequests ==
    [code : CodeArgs, province : ProvinceArgs, amphoe : AmphoeArgs,
     district : DistrictArgs, q : QArgs, fuzzy : FuzzyArgs,
     limit : {None}, offset : {None}]
    \cup
    [code : {None, <<48>>}, province : {None}, amphoe : {None},
     district : {None}, q : {None}, fuzzy : {None},
     limit : LimitArgs, offset : OffsetArgs]

ReverseRequests ==
    [province : ProvinceArgs, amphoe : AmphoeArgs, district : DistrictArgs,
     fuzzy : FuzzyArgs]

SuggestRequests ==
    [q : {None, <<>>, <<32>>, <<97>>, <<65, 32>>, <<48>>, <<32, 49>>},
                                        \* -, "", " ", "a", "A ", "0", " 1"
     limit : {None, <<49>>, <<50>>, <<57, 57>>, <<48>>, <<120>>}]
                                        \* -, "1", "2", "99", "0", "x"

-----------------------------------------------------------------------------
(* The JSON API, lines 247-377 *)

Location(r) == [province |-> r.province, amphoe |-> r.amphoe, district |-> r.district]

Result(r) ==
    [code |-> r.code, province |-> r.province, amphoe |-> r.amphoe,
     district |-> r.district]

\* A variant of ZipcodeLookup that reads the Mapping with
\* setdefault(code_clean, []) instead of get(code_clean, []).
ZipcodeLookup_setdefault ==
    /\ pc = "serving"
    /\ \E code \in ZipcodePaths :
         /\ resp' = [handler |-> "ZipcodeLookup", request |-> [code |-> code],
                     response |-> [status |-> 404, body |-> [code |-> strip(code)]]]
         /\ ZIPCODE_TO_LOCATIONS' =
              IF HasKey(ZIPCODE_TO_LOCATIONS, strip(code)) THEN ZIPCODE_TO_LOCATIONS
              ELSE Append(ZIPCODE_TO_LOCATIONS, [key |-> strip(code), val |-> <<>>])
    /\ pc' = "responding"
    /\ UNCHANGED <<fetches, fetch_failed, index>>

\* Lines 249-256.
ZipcodeLookup_get(code) ==
    LET code_clean == strip(code)
        locations == DictGet(ZIPCODE_TO_LOCATIONS, code_clean, <<>>)
    IN  IF ~isdigit(code_clean) \/ Len(code_clean) # 5
        THEN [status |-> 400,
              body |-> [error |-> "Invalid zipcode. Must be 5 digits."]]
        ELSE IF locations = <<>>
        THEN [status |-> 404,
              body |-> [error |-> "Zipcode not found in dataset.", code |-> code_clean]]
        ELSE [status |-> 200, body |-> [code |-> code_clean, locations |-> locations]]

ZipcodeLookup ==
    /\ pc = "serving"
    /\ \E code \in ZipcodePaths :
         resp' = [handler |-> "ZipcodeLookup", request |-> [code |-> code],
                  response |-> ZipcodeLookup_get(code)]
    /\ pc' = "responding"
    /\ UNCHANGED <<fetches, fetch_failed, shared>>

\* A variant of SearchKeeps that compares the code with the trimmed q.
SearchKeeps_trimmed_q(r, code_q, province, amphoe, district, q, fuzzy) ==
    /\ ~(code_q # <<>> /\ ~startswith(r.code, code_q))
    /\ ~(province # <<>> /\ ~is_match(r.province, province, fuzzy))
    /\ ~(amphoe # <<>> /\ ~is_match(r.amphoe, amphoe, fuzzy))
    /\ ~(district # <<>> /\ ~is_match(r.district, district, fuzzy))
    /\ ~(q # <<>> /\ ~(\/ is_match(r.province, q, fuzzy)
                       \/ is_match(r.amphoe, q, fuzzy)
                       \/ is_match(r.district, q, fuzzy)
                       \/ startswith(r.code, strip(q))))

\* Lines 281-297: whether the loop reaches results.append for record r.
SearchKeeps(r, code_q, province, amphoe, district, q, fuzzy) ==
    /\ ~(code_q # <<>> /\ ~startswith(r.code, code_q))
    /\ ~(province # <<>> /\ ~is_match(r.province, province, fuzzy))
    /\ ~(amphoe # <<>> /\ ~is_match(r.amphoe, amphoe, fuzzy))
    /\ ~(district # <<>> /\ ~is_match(r.district, district, fuzzy))
    /\ ~(q # <<>> /\ ~(\/ is_match(r.province, q, fuzzy)
                       \/ is_match(r.amphoe, q, fuzzy)
                       \/ is_match(r.district, q, fuzzy)
                       \/ startswith(r.code, q)))

\* Lines 278-303: the records the loop keeps, as result rows.
SearchResults(records, args, fuzzy) ==
    LET kept == SelectSeq(records,
                    LAMBDA r : SearchKeeps(r, strip(Arg(args, "code", <<>>)),
                                           Arg(args, "province", <<>>),
                                           Arg(args, "amphoe", <<>>),
                                           Arg(args, "district", <<>>),
                                           Arg(args, "q", <<>>), fuzzy))
    IN  [i \in 1..Len(kept) |-> Result(kept[i])]

\* Lines 305-306: results[offset: offset + limit].
Paged(results, offset, limit) == Slice(results, offset, offset + limit)

\* Lines 262-307.
ForwardSearch_get(args) ==
    LET limit == SearchLimit(args)
        offset == SearchOffset(args)
        results == SearchResults(RECORDS, args, ParseFuzzy(args))
    IN  [status |-> 200,
         body |-> [total |-> Len(results), limit |-> limit, offset |-> offset,
                   results |-> Paged(results, offset, limit)]]

ForwardSearch ==
    /\ pc = "serving"
    /\ \E args \in SearchRequests :
         resp' = [handler |-> "ForwardSearch", request |-> args,
                  response |-> ForwardSearch_get(args)]
    /\ pc' = "responding"
    /\ UNCHANGED <<fetches, fetch_failed, shared>>

\* Lines 321-326 (and 191-196): whether the loop reaches the append for r.
ReverseKeeps(r, province, amphoe, district, fuzzy) ==
    /\ ~(province # <<>> /\ ~is_match(r.province, province, fuzzy))
    /\ ~(amphoe # <<>> /\ ~is_match(r.amphoe, amphoe, fuzzy))
    /\ ~(district # <<>> /\ ~is_match(r.district, district, fuzzy))

\* Lines 319-331 (and 189-197): the dict grouped.
Grouped(records, args, fuzzy) ==
    LET kept == SelectSeq(records,
                    LAMBDA r : ReverseKeeps(r, Arg(args, "province", <<>>),
                                            Arg(args, "amphoe", <<>>),
                                            Arg(args, "district", <<>>), fuzzy))
    IN  SetDefaultAppendAll([i \in 1..Len(kept) |->
                                [key |-> kept[i].code, val |-> Location(kept[i])]])

\* A variant of ReverseResults that keeps the first 100 groups only, as the
\* page of line 198 does.
ReverseResults_capped(grouped) ==
    LET items == Slice(sorted_items(grouped), 0, 100)
    IN  [i \in 1..Len(items) |-> [code |-> items[i].key, locations |-> items[i].val]]

\* Line 336: [{"code": code, "locations": locs} for code, locs in sorted(grouped.items())]
ReverseResults(grouped) ==
    LET items == sorted_items(grouped)
    IN  [i \in 1..Len(items) |-> [code |-> items[i].key, locations |-> items[i].val]]

\* Lines 313-337.
ReverseLookup_get(args) ==
    LET grouped == Grouped(RECORDS, args, ParseFuzzy(args))
    IN  IF grouped = <<>>
        THEN [status |-> 404, body |-> [error |-> "No results found."]]
        ELSE [status |-> 200, body |-> [results |-> ReverseResults(grouped)]]

ReverseLookup ==
    /\ pc = "serving"
    /\ \E args \in ReverseRequests :
         resp' = [handler |-> "ReverseLookup", request |-> args,
                  response |-> ReverseLookup_get(args)]
    /\ pc' = "responding"
    /\ UNCHANGED <<fetches, fetch_failed, shared>>

\* A variant of filter_values whose break comes one pick late.
RECURSIVE filter_values_late_break(_, _, _, _)
filter_values_late_break(values, qn, limit, picks) ==
    IF values = <<>> THEN picks
    ELSE LET picked == IF Contains(normalize_text(Head(values)), qn)
                       THEN Append(picks, Head(values)) ELSE picks
         IN  IF Len(picked) > limit THEN picked
             ELSE filter_values_late_break(Tail(values), qn, limit, picked)

\* Lines 359-366 (and 209-216): the loop with its break.
RECURSIVE filter_values(_, _, _, _)
filter_values(values, qn, limit, picks) ==
    IF values = <<>> THEN picks
    ELSE LET picked == IF Contains(normalize_text(Head(values)), qn)
                       THEN Append(picks, Head(values)) ELSE picks
         IN  IF Len(picked) >= limit THEN picked
             ELSE filter_values(Tail(values), qn, limit, picked)

\* Line 368 (and 217): [z for z in UNIQUE_ZIPCODES if z.startswith(qn)][:limit]
ZipSuggestions(zipcodes, qn, limit) ==
    Slice(SelectSeq(zipcodes, LAMBDA z : startswith(z, qn)), 0, limit)

\* Lines 343-377.
Suggest_get(args) ==
    LET limit == SuggestLimit(args)
        qn == normalize_text(Arg(args, "q", <<>>))
    IN  IF qn = <<>>
        THEN [status |-> 200,
              body |-> [zipcodes |-> Slice(UNIQUE_ZIPCODES, 0, limit),
                        provinces |-> Slice(UNIQUE_PROVINCES, 0, limit),
                        amphoes |-> Slice(UNIQUE_AMPHOES, 0, limit),
                        districts |-> Slice(UNIQUE_DISTRICTS, 0, limit)]]
        ELSE [status |-> 200,
              body |-> [zipcodes |-> ZipSuggestions(UNIQUE_ZIPCODES, qn, limit),
                        provinces |-> filter_values(UNIQUE_PROVINCES, qn, limit, <<>>),
                        amphoes |-> filter_values(UNIQUE_AMPHOES, qn, limit, <<>>),
                        districts |-> filter_values(UNIQUE_DISTRICTS, qn, limit, <<>>)]]

Suggest ==
    /\ pc = "serving"
    /\ \E args \in SuggestRequests :
         resp' = [handler |-> "Suggest", request |-> args,
                  response |-> Suggest_get(args)]
    /\ pc' = "responding"
    /\ UNCHANGED <<fetches, fetch_failed, shared>>

\* Lines 105-107.
health ==
    /\ pc = "serving"
    /\ resp' = [handler |-> "health", request |-> [path |-> "/health"],
                response |-> [status |-> 200, body |-> [status |-> "ok"]]]
    /\ pc' = "responding"
    /\ UNCHANGED <<fetches, fetch_failed, shared>>

-----------------------------------------------------------------------------
(* The HTML pages, lines 110-222: the response is the template's context. *)
(* A value that may be None and is no str is Nothing or Some(value).      *)

Nothing == <<>>
Some(x) == <<x>>

UiZipcodeRequests == [code : ZipcodePaths \cup {None, <<>>}]

UiSearchRequests ==
    [q : {None, <<>>, <<49>>, <<32>>},                \* -, "", "1", " "
     code : {None, <<32, 49, 32>>},                   \* -, " 1 "
     province : ProvinceArgs,
     amphoe : {None, <<98, 97, 103>>},                \* -, "bag"
     district : DistrictArgs,
     fuzzy : UiFuzzyArgs]

UiReverseRequests ==
    [province : ProvinceArgs \cup {<<>>}, amphoe : AmphoeArgs,
     district : DistrictArgs, fuzzy : UiFuzzyArgs]

UiSuggestRequests == [q : {None, <<>>, <<32>>, <<97>>, <<48>>, <<32, 49>>}]

\* any(params.values()) for a dict of str values.
AnyValue(params) == \E name \in DOMAIN params : params[name] # <<>>

\* Lines 116-118 (and 110-113).
home_page ==
    /\ pc = "serving"
    /\ resp' = [handler |-> "home_page", request |-> [path |-> "/"],
                response |-> [status |-> 200, body |-> [template |-> "home.html"]]]
    /\ pc' = "responding"
    /\ UNCHANGED <<fetches, fetch_failed, shared>>

\* Lines 122-135.
ui_zipcode_context(args) ==
    LET code == strip(Arg(args, "code", <<>>))
        locs == DictGet(ZIPCODE_TO_LOCATIONS, code, <<>>)
    IN  IF code = <<>> THEN [code |-> code, data |-> Nothing, error |-> "None"]
        ELSE IF ~isdigit(code) \/ Len(code) # 5
        THEN [code |-> code, data |-> Nothing,
              error |-> "Invalid zipcode. Must be 5 digits."]
        ELSE IF locs = <<>>
        THEN [code |-> code, data |-> Nothing, error |-> "Zipcode not found."]
        ELSE [code |-> code, data |-> Some([code |-> code, locations |-> locs]),
              error |-> "None"]

ui_zipcode ==
    /\ pc = "serving"
    /\ \E args \in UiZipcodeRequests :
         resp' = [handler |-> "ui_zipcode", request |-> args,
                  response |-> [status |-> 200, body |-> ui_zipcode_context(args)]]
    /\ pc' = "responding"
    /\ UNCHANGED <<fetches, fetch_failed, shared>>

\* Lines 140-147.
ui_search_params(args) ==
    [q |-> Arg(args, "q", <<>>),
     code |-> Arg(args, "code", <<>>),
     province |-> Arg(args, "province", <<>>),
     amphoe |-> Arg(args, "amphoe", <<>>),
     district |-> Arg(args, "district", <<>>),
     fuzzy |-> Arg(args, "fuzzy", FalseStr)]

\* Lines 148-175; the loop of lines 155-172 is that of lines 280-303.
ui_search_context(args) ==
    LET params == ui_search_params(args)
        rows == SearchResults(RECORDS, params, lower(params.fuzzy) \in FuzzyTrue)
    IN  IF AnyValue(params)
        THEN [params |-> params, total |-> Len(rows),
              results |-> Some(Slice(rows, 0, 100))]
        ELSE [params |-> params, total |-> 0, results |-> Nothing]

ui_search ==
    /\ pc = "serving"
    /\ \E args \in UiSearchRequests :
         resp' = [handler |-> "ui_search", request |-> args,
                  response |-> [status |-> 200, body |-> ui_search_context(args)]]
    /\ pc' = "responding"
    /\ UNCHANGED <<fetches, fetch_failed, shared>>

\* Lines 180-185.
ui_reverse_params(args) ==
    [province |-> Arg(args, "province", <<>>),
     amphoe |-> Arg(args, "amphoe", <<>>),
     district |-> Arg(args, "district", <<>>),
     fuzzy |-> Arg(args, "fuzzy", FalseStr)]

\* Lines 186-199: sorted(grouped.items())[:100].
ui_reverse_context(args) ==
    LET params == ui_reverse_params(args)
        grouped == Grouped(RECORDS, params, lower(params.fuzzy) \in FuzzyTrue)
    IN  IF AnyValue(params)
        THEN [params |-> params, results |-> Some(Slice(sorted_items(grouped), 0, 100))]
        ELSE [params |-> params, results |-> Nothing]

ui_reverse ==
    /\ pc = "serving"
    /\ \E args \in UiReverseRequests :
         resp' = [handler |-> "ui_reverse", request |-> args,
                  response |-> [status |-> 200, body |-> ui_reverse_context(args)]]
    /\ pc' = "responding"
    /\ UNCHANGED <<fetches, fetch_failed, shared>>

\* Lines 204-222, with the fixed limit of 10.
ui_suggest_context(args) ==
    LET q == Arg(args, "q", <<>>)
        qn == normalize_text(q)
    IN  IF q = <<>> THEN [q |-> q, suggestions |-> Nothing]
        ELSE [q |-> q,
              suggestions |->
                Some([zipcodes |-> ZipSuggestions(UNIQUE_ZIPCODES, qn, 10),
                      provinces |-> filter_values(UNIQUE_PROVINCES, qn, 10, <<>>),
                      amphoes |-> filter_values(UNIQUE_AMPHOES, qn, 10, <<>>),
                      districts |-> filter_values(UNIQUE_DISTRICTS, qn, 10, <<>>)])]

ui_suggest ==
    /\ pc = "serving"
    /\ \E args \in UiSuggestRequests :
         resp' = [handler |-> "ui_suggest", request |-> args,
                  response |-> [status |-> 200, body |-> ui_suggest_context(args)]]
    /\ pc' = "responding"
    /\ UNCHANGED <<fetches, fetch_failed, shared>>

\* Lines 379-381: the routes are fixed when the module is imported.
list_routes ==
    /\ pc = "serving"
    /\ resp' = [handler |-> "list_routes", request |-> [path |-> "/routes"],
                response |-> [status |-> 200, body |-> [routes |-> "url_map"]]]
    /\ pc' = "responding"
    /\ UNCHANGED <<fetches, fetch_failed, shared>>

\* The response leaves; the worker takes the next request.
SendResponse ==
    /\ pc = "responding"
    /\ pc' = "serving"
    /\ resp' = NoResponse
    /\ UNCHANGED <<fetches, fetch_failed, shared>>

Next ==
    \/ fetch_and_build_mapping
    \/ fetch_raises
    \/ BuildIndex
    \/ ZipcodeLookup
    \/ ForwardSearch
    \/ ReverseLookup
    \/ Suggest
    \/ health
    \/ home_page
    \/ ui_zipcode
    \/ ui_search
    \/ ui_reverse
    \/ ui_suggest
    \/ list_routes
    \/ SendResponse

Spec == Init /\ [][Next]_vars

-----------------------------------------------------------------------------
(* Properties *)

Started == pc \in {"built", "serving", "responding"}

FiveAsciiDigits(code) ==
    Len(code) = 5 /\ \A i \in 1..5 : IsAsciiDigit(code[i])

PlaceTriple(place) == <<place.province, place.amphoe, place.district>>

\* A filter the request supplies: present and not empty.
Supplied(v) == v # None /\ v # <<>>

\* A record's province, an absent one read as the empty string.
ProvinceText(r) == IF r.province = None THEN <<>> ELSE r.province

\* C1: once the Mapping is built, the Place list of every postal code holds
\* no triple twice and is sorted ascending by (province, amphoe, district).
C1_PlaceListsSortedDistinct ==
    Started =>
        \A e \in 1..Len(ZIPCODE_TO_LOCATIONS) :
            LET locs == ZIPCODE_TO_LOCATIONS[e].val
            IN  \A i, j \in 1..Len(locs) :
                    i < j => TripleLess(PlaceTriple(locs[i]), PlaceTriple(locs[j]))

\* C5: once the Mapping is built, every key of it is exactly five ASCII
\* digits.
C5_KeysAreFiveAsciiDigits ==
    Started =>
        \A e \in 1..Len(ZIPCODE_TO_LOCATIONS) :
            FiveAsciiDigits(ZIPCODE_TO_LOCATIONS[e].key)

\* C2: GET /api/zipcode/{code} answers 400 exactly when the trimmed code is
\* not five ASCII digits, otherwise 404 exactly when the trimmed code is no
\* key of the Mapping, otherwise 200 with the code and the stored, non-empty
\* Place list.
C2_ZipcodeLookupStatus ==
    resp.handler = "ZipcodeLookup" =>
        LET code == strip(resp.request.code)
            stored == {e \in 1..Len(ZIPCODE_TO_LOCATIONS) :
                          ZIPCODE_TO_LOCATIONS[e].key = code}
            r == resp.response
        IN  /\ (r.status = 400) <=> ~FiveAsciiDigits(code)
            /\ r.status = 400 =>
                 r.body = [error |-> "Invalid zipcode. Must be 5 digits."]
            /\ FiveAsciiDigits(code) => ((r.status = 404) <=> (stored = {}))
            /\ FiveAsciiDigits(code) /\ stored # {} =>
                 /\ r.status = 200
                 /\ r.body.code = code
                 /\ r.body.locations # <<>>
                 /\ \A e \in stored : r.body.locations = ZIPCODE_TO_LOCATIONS[e].val

\* The records that satisfy every supplied filter of a search request.
C7_Matches(r, req, fuzzy) ==
    /\ Supplied(req.code) => startswith(r.code, strip(req.code))
    /\ Supplied(req.province) => is_match(ProvinceText(r), req.province, fuzzy)
    /\ Supplied(req.amphoe) => is_match(r.amphoe, req.amphoe, fuzzy)
    /\ Supplied(req.district) => is_match(r.district, req.district, fuzzy)
    /\ Supplied(req.q) =>
         \/ is_match(ProvinceText(r), req.q, fuzzy)
         \/ is_match(r.amphoe, req.q, fuzzy)
         \/ is_match(r.district, req.q, fuzzy)
         \/ startswith(r.code, req.q)

\* The indices of the matching records, and the k-th of them in order.
MatchingIndices(req, fuzzy) ==
    {i \in 1..Len(RECORDS) : C7_Matches(RECORDS[i], req, fuzzy)}

NthOf(S, k) == CHOOSE i \in S : Cardinality({j \in S : j < i}) = k - 1

\* C4: /ui/search with no parameter at all renders no results (results is
\* absent and total is 0); with some non-empty parameter it reports the full
\* match count as total and renders the first 100 matches at most.
C4_UiSearchBareFormOrCapped ==
    resp.handler = "ui_search" =>
        LET req == resp.request
            body == resp.response.body
            fuzzy == lower(Arg(req, "fuzzy", FalseStr)) \in FuzzyTrue
            M == MatchingIndices(req, fuzzy)
            shown == IF Cardinality(M) < 100 THEN Cardinality(M) ELSE 100
        IN  /\ (\A name \in DOMAIN req : req[name] = None) =>
                 body.results = Nothing /\ body.total = 0
            /\ (\E name \in DOMAIN req : Supplied(req[name])) =>
                 /\ body.total = Cardinality(M)
                 /\ body.results # Nothing
                 /\ Len(body.results[1]) = shown
                 /\ \A k \in 1..shown :
                        body.results[1][k] = Result(RECORDS[NthOf(M, k)])

\* The records that pass the province, amphoe and district filters.
C3_Passes(r, req, fuzzy) ==
    /\ Supplied(req.province) => is_match(ProvinceText(r), req.province, fuzzy)
    /\ Supplied(req.amphoe) => is_match(r.amphoe, req.amphoe, fuzzy)
    /\ Supplied(req.district) => is_match(r.district, req.district, fuzzy)

\* What C3 says of every answer of GET /api/reverse but the truncation: 404
\* exactly when no record passes the filters; otherwise 200 with one result
\* for each code of a passing record, the results strictly ascending by
\* code, and each result listing the passing records of its code in record
\* order.
C3_ReverseAnswer ==
    LET req == resp.request
        r == resp.response
        passing == SelectSeq(RECORDS, LAMBDA x : C3_Passes(x, req, ParseFuzzy(req)))
        OfCode(c) == SelectSeq(passing, LAMBDA x : x.code = c)
    IN  /\ (r.status = 404) <=> (passing = <<>>)
        /\ r.status = 404 => r.body = [error |-> "No results found."]
        /\ r.status # 404 =>
             /\ r.status = 200
             /\ {r.body.results[i].code : i \in 1..Len(r.body.results)}
                  = {passing[i].code : i \in 1..Len(passing)}
             /\ \A i \in 1..(Len(r.body.results) - 1) :
                    StrLess(r.body.results[i].code, r.body.results[i + 1].code)
             /\ \A i \in 1..Len(r.body.results) :
                    LET mine == OfCode(r.body.results[i].code)
                    IN  r.body.results[i].locations
                          = [k \in 1..Len(mine) |-> Location(mine[k])]

\* C3 as stated: GET /api/reverse answers 404 exactly when no record passes
\* the filters, and otherwise 200 with the results ascending by code and
\* truncated to the first 100 distinct codes.
C3_ReverseTruncated ==
    resp.handler = "ReverseLookup" =>
        LET req == resp.request
            r == resp.response
            passing == SelectSeq(RECORDS, LAMBDA x : C3_Passes(x, req, ParseFuzzy(req)))
        IN  /\ (r.status = 404) <=> (passing = <<>>)
            /\ r.status # 404 =>
                 /\ r.status = 200
                 /\ Len(r.body.results) <= 100
                 /\ \A i \in 1..(Len(r.body.results) - 1) :
                        StrLess(r.body.results[i].code, r.body.results[i + 1].code)

\* C3 as amended: GET /api/reverse answers 404 exactly when no record passes
\* the filters, and otherwise 200 with one result for every distinct code of
\* the passing records, ascending by code, none left out however many there
\* are.
C3_ReverseAllCodesSorted == resp.handler = "ReverseLookup" => C3_ReverseAnswer

\* An answer of GET /api/reverse with more than 100 codes.
C3_Witness ==
    /\ resp.handler = "ReverseLookup"
    /\ resp.response.status = 200
    /\ Len(resp.response.body.results) > 100

\* The limit a request asks for, clamped to [lo, hi]; dflt when the request
\* has none or it is no integer.
EffectiveLimit(raw, lo, hi, dflt) ==
    IF raw = None \/ ~ParseInt(raw).ok THEN dflt
    ELSE IF ParseInt(raw).val < lo THEN lo
    ELSE IF ParseInt(raw).val > hi THEN hi
    ELSE ParseInt(raw).val

\* C6: GET /api/search answers 200 with the limit clamped to [1, 200] (50
\* when missing or no integer), the offset clamped to >= 0 (0 when missing
\* or no integer), total the number of records passing the filters, and
\* results the records number offset + 1 .. offset + limit of those, in
\* record order.
C6_SearchPaging ==
    resp.handler = "ForwardSearch" =>
        LET req == resp.request
            body == resp.response.body
            M == MatchingIndices(req, ParseFuzzy(req))
            limit == EffectiveLimit(req.limit, 1, 200, 50)
            offset == IF req.offset = None \/ ~ParseInt(req.offset).ok THEN 0
                      ELSE IF ParseInt(req.offset).val < 0 THEN 0
                      ELSE ParseInt(req.offset).val
            left == IF Cardinality(M) > offset THEN Cardinality(M) - offset ELSE 0
            shown == IF left < limit THEN left ELSE limit
        IN  /\ resp.response.status = 200
            /\ body.limit = limit
            /\ body.offset = offset
            /\ body.total = Cardinality(M)
            /\ Len(body.results) = shown
            /\ Len(body.results) <= limit
            /\ \A k \in 1..shown :
                   body.results[k] = Result(RECORDS[NthOf(M, offset + k)])

\* A page cut at both ends: an offset, and more matches left than the limit.
C6_Witness ==
    /\ resp.handler = "ForwardSearch"
    /\ resp.response.body.offset > 0
    /\ Len(resp.response.body.results) = resp.response.body.limit
    /\ resp.response.body.total
         > resp.response.body.offset + resp.response.body.limit

\* C7: the match set of GET /api/search holds exactly the records that
\* satisfy every supplied filter (an unsupplied or empty filter excludes
\* none): total counts them, every result is one of them, and a page that
\* starts at 0 and is not full shows them all; and is_match with a query
\* that normalizes to the empty string holds for every candidate and either
\* value of fuzzy.
C7_SearchMatchSet ==
    /\ resp.handler = "ForwardSearch" =>
         LET req == resp.request
             body == resp.response.body
             M == MatchingIndices(req, ParseFuzzy(req))
             matching == {Result(RECORDS[i]) : i \in M}
         IN  /\ body.total = Cardinality(M)
             /\ \A k \in 1..Len(body.results) : body.results[k] \in matching
             /\ body.offset = 0 /\ Len(body.results) < body.limit =>
                  \A row \in matching :
                      \E k \in 1..Len(body.results) : body.results[k] = row
    /\ \A i \in 1..Len(RECORDS) : \A fuzzy \in BOOLEAN :
         \A query \in {None, <<>>, <<32>>, <<9, 32>>} :
             /\ is_match(RECORDS[i].province, query, fuzzy)
             /\ is_match(RECORDS[i].amphoe, query, fuzzy)

\* A search with a name filter, a free-text query and fuzzy matching that
\* some records pass and some do not.
C7_Witness ==
    /\ resp.handler = "ForwardSearch"
    /\ Supplied(resp.request.amphoe)
    /\ Supplied(resp.request.q)
    /\ resp.request.fuzzy # None
    /\ resp.response.body.total > 0
    /\ resp.response.body.total < Len(RECORDS)

\* Whether a list of str is strictly ascending.
Ascending(seq) == \A i \in 1..(Len(seq) - 1) : StrLess(seq[i], seq[i + 1])

Members(seq) == {seq[i] : i \in 1..Len(seq)}

\* C8: the four distinct-value lists are sorted and hold the distinct
\* non-empty values; GET /api/suggest answers 200 with four lists of at most
\* limit entries (limit clamped to [1, 20], 10 when no integer): the first
\* limit entries of each list when the normalized q is empty, and otherwise
\* the first limit codes that start with the normalized q and the first
\* limit names whose normalized form contains it.
C8_SuggestLists ==
    /\ pc \in {"serving", "responding"} =>
         /\ Ascending(UNIQUE_ZIPCODES) /\ Ascending(UNIQUE_PROVINCES)
         /\ Ascending(UNIQUE_AMPHOES) /\ Ascending(UNIQUE_DISTRICTS)
         /\ Members(UNIQUE_ZIPCODES) = Members(Keys(ZIPCODE_TO_LOCATIONS))
         /\ Members(UNIQUE_PROVINCES)
              = {RECORDS[i].province : i \in 1..Len(RECORDS)} \ {None, <<>>}
         /\ Members(UNIQUE_AMPHOES)
              = {RECORDS[i].amphoe : i \in 1..Len(RECORDS)} \ {None, <<>>}
         /\ Members(UNIQUE_DISTRICTS)
              = {RECORDS[i].district : i \in 1..Len(RECORDS)} \ {None, <<>>}
    /\ resp.handler = "Suggest" =>
         LET req == resp.request
             body == resp.response.body
             limit == EffectiveLimit(req.limit, 1, 20, 10)
             qn == normalize_text(Arg(req, "q", <<>>))
             FirstContaining(values) ==
                 Slice(SelectSeq(values, LAMBDA v : Contains(normalize_text(v), qn)),
                       0, limit)
         IN  /\ resp.response.status = 200
             /\ \A list \in {body.zipcodes, body.provinces, body.amphoes,
                             body.districts} : Len(list) <= limit
             /\ qn = <<>> =>
                  /\ body.zipcodes = Slice(UNIQUE_ZIPCODES, 0, limit)
                  /\ body.provinces = Slice(UNIQUE_PROVINCES, 0, limit)
                  /\ body.amphoes = Slice(UNIQUE_AMPHOES, 0, limit)
                  /\ body.districts = Slice(UNIQUE_DISTRICTS, 0, limit)
             /\ qn # <<>> =>
                  /\ body.zipcodes
                       = Slice(SelectSeq(UNIQUE_ZIPCODES, LAMBDA z : startswith(z, qn)),
                               0, limit)
                  /\ body.provinces = FirstContaining(UNIQUE_PROVINCES)
                  /\ body.amphoes = FirstContaining(UNIQUE_AMPHOES)
                  /\ body.districts = FirstContaining(UNIQUE_DISTRICTS)

\* A suggestion for a non-empty query that more amphoes contain than the
\* limit lets through.
C8_Witness ==
    /\ resp.handler = "Suggest"
    /\ normalize_text(Arg(resp.request, "q", <<>>)) # <<>>
    /\ Len(resp.response.body.amphoes) = EffectiveLimit(resp.request.limit, 1, 20, 10)
    /\ Len(SelectSeq(UNIQUE_AMPHOES,
                     LAMBDA v : Contains(normalize_text(v),
                                         normalize_text(resp.request.q))))
         > Len(resp.response.body.amphoes)

\* C9: the dataset is fetched at most once and never again; requests are
\* only served after the one fetch succeeded; once the fetch has failed the
\* process is aborted, has answered no request and serves none.
C9_SingleFetchOrAbort ==
    /\ fetches <= 1
    /\ pc \in {"built", "serving", "responding"} => fetches = 1 /\ ~fetch_failed
    /\ resp # NoResponse => fetches = 1 /\ ~fetch_failed
    /\ fetch_failed => pc = "aborted" /\ resp = NoResponse /\ shared = <<<<>>, <<<<>>, <<>>, <<>>, <<>>, <<>>>>>>
    /\ pc = "start" <=> fetches = 0

\* The startup fetch has failed.
C9_Witness == fetch_failed /\ fetches = 1 /\ pc = "aborted"

\* C10: after startup no step changes the Mapping, the Record list or the
\* four distinct-value lists.
C10_HandlersDoNotWrite ==
    [][(pc \in {"serving", "responding"}) => (shared' = shared)]_vars

\* A page handler has answered over a non-empty index.
C10_Witness ==
    /\ pc = "responding"
    /\ resp.handler = "ui_reverse"
    /\ RECORDS # <<>>
    /\ resp.response.body.results # Nothing

====
